---- MODULE Spec2Model ----
(***************************************************************************)
(* Model of the competitor matcher of price-optimizer.                     *)
(*                                                                         *)
(* Two programs implement the match request:                               *)
(*   impl = "server" : backend/server.py, find_competitor + search_and_match *)
(*   impl = "cli"    : competitor_matcher.py, find_best_competitor         *)
(*                                                                         *)
(* Python strings are sequences of one-character strings, None/absent is   *)
(* the empty tuple and a present value v is <<v>> (an option).             *)
(* A cosine c is carried as the exact rational sgn(c)*c^2 (num/den), an    *)
(* order-preserving image of c: -1, 0 and 1 are kept, and so is "<".       *)
(* A candidate carries id, title, desc_text, similarity and features; its  *)
(* price, currency, link and sales fields are copied from the search item  *)
(* and never read again, and are left out.                                 *)
(***************************************************************************)
EXTENDS Integers, Sequences, FiniteSets, TLC

VARIABLES
    impl,             \* which program serves the request
    pc,               \* position of the request in the handler
    keyword,          \* request input: search keyword
    my_desc,          \* request input: my product description
    candidates,       \* candidates / competitors built from the search
    valid_candidates, \* valid_candidates (server) / results (cli)
    all_texts,        \* embedding batch being built (server)
    embeddings,       \* value returned by get_embeddings_from_hf (server)
    my_vector,        \* reference vector, <<>> before it is computed
    best_match,       \* <<>> (None) or <<i>>: alias of valid_candidates[i]
    highest_score,    \* running maximum
    idx,              \* loop index of the running for-loop
    result,           \* what the request returned, once pc = "done"
    searchFailed,     \* the search collaborator call raised
    searchCalls,      \* number of search calls issued
    fetchLog,         \* one entry per detail fetch: id, response, text
    embedLog          \* one entry per embedding call: batch, loop position

vars == <<impl, pc, keyword, my_desc, candidates, valid_candidates, all_texts,
          embeddings, my_vector, best_match, highest_score, idx, result,
          searchFailed, searchCalls, fetchLog, embedLog>>

----------------------------------------------------------------------------
(* Bounds of the model *)

MaxResults == 2      \* raw search results returned by the marketplace

(* Program constants *)

SearchLimit == 1     \* data['search_results'][:1] / limit=1
TextLimit == 800     \* dt[:800]
PreviewLen == 100    \* desc_text[:100]

----------------------------------------------------------------------------
(* Strings and options *)

None == <<>>
Some(v) == <<v>>
Get(opt, default) == IF opt = None THEN default ELSE opt[1]

Min(a, b) == IF a < b THEN a ELSE b

\* s[:n]
Take(s, n) == SubSeq(s, 1, Min(Len(s), n))

RECURSIVE Join(_, _)
\* sep.join(parts)
Join(parts, sep) ==
    IF parts = <<>> THEN <<>>
    ELSE IF Len(parts) = 1 THEN parts[1]
    ELSE parts[1] \o sep \o Join(Tail(parts), sep)

DotSpace == <<".", " ">>
Space == <<" ">>
Ellipsis == <<".", ".", ".">>
ErrorFeatures == <<"AI Service Error - Check Logs">>

----------------------------------------------------------------------------
(* The search collaborator (Rainforest, type=search) *)

Titles == {<<>>, <<"T">>}

\* What requests.get + raise_for_status + json() can give for a search:
\* ok = FALSE is any exception of the call (transport, HTTP status, timeout);
\* hasKey says whether the JSON object carries 'search_results'.
SearchResponses ==
    {[ok |-> FALSE, hasKey |-> FALSE, items |-> <<>>],
     [ok |-> TRUE, hasKey |-> FALSE, items |-> <<>>]}
    \cup
    UNION {{[ok |-> TRUE, hasKey |-> TRUE,
             items |-> [k \in 1..n |-> [asin |-> k, title |-> t[k]]]]
            : t \in [1..n -> Titles]} : n \in 0..MaxResults}

\* _make_rainforest_request / _make_api_request: the JSON, or None on any error
_make_rainforest_request(resp) == IF resp.ok THEN Some(resp) ELSE None

\* the dict appended for one search result
NewCandidate(item) ==
    [id |-> item.asin, title |-> item.title, desc_text |-> <<>>,
     similarity |-> None, features |-> None]

\* the candidate list built from the search response, first SearchLimit items
BuildCandidates(data) ==
    IF data # None /\ data[1].hasKey
    THEN LET items == Take(data[1].items, SearchLimit)
         IN [k \in 1..Len(items) |-> NewCandidate(items[k])]
    ELSE <<>>

----------------------------------------------------------------------------
(* The detail collaborator (Rainforest, type=product) *)

OptTitles == {None, Some(<<>>), Some(<<"T">>)}
OptBullets == {None, Some(<<>>), Some(<< <<"b">>, <<"c">> >>)}
OptDescriptions == {None, Some(<<>>), Some(<<"d">>)}

NoProduct == [title |-> None, feature_bullets |-> None, description |-> None]

DetailResponses ==
    {[ok |-> FALSE, hasProduct |-> FALSE, product |-> NoProduct],
     [ok |-> TRUE, hasProduct |-> FALSE, product |-> NoProduct]}
    \cup
    {[ok |-> TRUE, hasProduct |-> TRUE,
      product |-> [title |-> t, feature_bullets |-> b, description |-> d]]
     : t \in OptTitles, b \in OptBullets, d \in OptDescriptions}

\* get_product_details without its `if not data or 'product' not in data` guard
get_product_details_unguarded(resp) ==
    Get(resp.product.title, <<>>) \o DotSpace
    \o Join(Get(resp.product.feature_bullets, <<>>), Space)
    \o Get(resp.product.description, <<>>)

\* server.py: title + ". " + " ".join(bullets) + str(description)
get_product_details(resp) ==
    LET data == _make_rainforest_request(resp)
    IN IF data = None \/ ~data[1].hasProduct THEN <<>>
       ELSE LET p == data[1].product
            IN Get(p.title, <<>>) \o DotSpace
               \o Join(Get(p.feature_bullets, <<>>), Space)
               \o Get(p.description, <<>>)

\* competitor_matcher.py: title + ". " + " ".join(bullets), and the long
\* description only when there are no bullets
get_product_details_from_api(resp) ==
    LET data == _make_rainforest_request(resp)
    IN IF data = None \/ ~data[1].hasProduct THEN <<>>
       ELSE LET product == data[1].product
                title == Get(product.title, <<>>)
                bullets == Get(product.feature_bullets, <<>>)
                description == Get(product.description, <<>>)
                full_text == title \o DotSpace \o Join(bullets, Space)
            IN IF bullets = <<>> THEN full_text \o description ELSE full_text

----------------------------------------------------------------------------
(* Vectors and cosine similarity *)

\* the vectors an embedding service is taken to answer with
Vectors == [1..1 -> -1..1] \cup [1..2 -> 0..1]

RECURSIVE Dot(_, _)
Dot(a, b) == IF a = <<>> THEN 0 ELSE a[1] * b[1] + Dot(Tail(a), Tail(b))

Sgn(x) == IF x > 0 THEN 1 ELSE IF x < 0 THEN -1 ELSE 0

\* sklearn cosine_similarity of two row vectors of equal length: both rows are
\* normalised (a zero row stays zero) and multiplied.  The value c is carried
\* as sgn(c)*c^2 = num/den.
cosine_similarity(a, b) ==
    LET na2 == Dot(a, a)
        nb2 == Dot(b, b)
        d == Dot(a, b)
    IN IF na2 = 0 \/ nb2 = 0 THEN [num |-> 0, den |-> 1]
       ELSE [num |-> Sgn(d) * d * d, den |-> na2 * nb2]

\* score > highest_score
ScoreGt(x, y) == x.num * y.den > y.num * x.den

\* highest_score = -1
InitialHighest == [num |-> -1, den |-> 1]
\* similarity = 0.0
ZeroScore == [num |-> 0, den |-> 1]

----------------------------------------------------------------------------
(* The embedding collaborator (HuggingFace inference API, server.py) *)

\* One element of the returned list: a vector, or a vector nested one level
\* deeper ([[...]]).
Entries == [nested : BOOLEAN, vec : Vectors]

\* np.array(e); if ndim > 1 take row 0; reshape(1, -1)
RowOf(e) == e.vec

PyNone == [kind |-> "none", items |-> <<>>]

\* The JSON bodies the service is taken to answer a batch of n texts with:
\* null, an error object, a truthy non-list (a string, a number), a falsy
\* non-list (0, "", false), and lists that are shorter than, as long as, or one
\* longer than the batch.
JsonBodies(n) ==
    {PyNone,
     [kind |-> "dict", items |-> <<>>],
     [kind |-> "scalar", items |-> <<>>],
     [kind |-> "falsy", items |-> <<>>]}
    \cup
    UNION {{[kind |-> "list", items |-> l] : l \in [1..m -> Entries]} : m \in 0..n}
    \cup
    {[kind |-> "list", items |-> Append(l, [nested |-> FALSE, vec |-> <<1>>])]
     : l \in [1..n -> Entries]}

\* One HTTP answer: exc = requests.post raised (network, timeout); otherwise
\* its status, whether its text mentions router.huggingface.co, and whether
\* its body parses as JSON.
FirstResponses ==
    {[exc |-> TRUE, status200 |-> FALSE, router |-> FALSE, isJson |-> FALSE]}
    \cup
    [exc : {FALSE}, status200 : BOOLEAN, router : BOOLEAN, isJson : BOOLEAN]

RetryResponses ==
    {[exc |-> TRUE, status200 |-> FALSE, router |-> FALSE, isJson |-> FALSE],
     [exc |-> FALSE, status200 |-> TRUE, router |-> FALSE, isJson |-> FALSE],
     [exc |-> FALSE, status200 |-> TRUE, router |-> FALSE, isJson |-> TRUE]}

\* the failover: a non-200 answer that mentions the router is retried there
Retried(first) == ~first.exc /\ ~first.status200 /\ first.router

\* number of requests.post calls made by one get_embeddings_from_hf call
Posts(first) == IF Retried(first) THEN 2 ELSE 1

\* whether a JSON body reaches `result = response.json()`
ParsesJson(first, second) ==
    /\ ~first.exc
    /\ IF Retried(first) THEN ~second.exc /\ second.isJson ELSE first.isJson

\* get_embeddings_from_hf: the parsed body, or None on any exception or on a
\* body that is not JSON
get_embeddings_from_hf(first, second, body) ==
    IF ParsesJson(first, second) THEN body ELSE PyNone

\* `not embeddings or isinstance(embeddings, dict)`
EmbeddingsFailed(e) ==
    \/ e.kind \in {"none", "falsy", "dict"}
    \/ e.kind = "list" /\ e.items = <<>>

----------------------------------------------------------------------------
(* The request *)

Keywords == {<<>>, <<"k">>}
Descriptions == {<<"m">>}
Impls == {"server", "cli"}

\* the pair a request returns: (best_match, candidates)
\* "success" is the flag find_competitor puts on every value search_and_match
\* returns; no path of search_and_match or find_best_competitor modelled here
\* raises, so no other kind is ever produced
Returned(best, all) == [kind |-> "success", best |-> best, all |-> all]
NoResult == Returned(None, <<>>)

Init ==
    /\ impl \in Impls
    /\ pc = "start"
    /\ keyword \in Keywords
    /\ my_desc \in Descriptions
    /\ candidates = <<>>
    /\ valid_candidates = <<>>
    /\ all_texts = <<>>
    /\ embeddings = PyNone
    /\ my_vector = None
    /\ best_match = None
    /\ highest_score = InitialHighest
    /\ idx = 0
    /\ result = NoResult
    /\ searchFailed = FALSE
    /\ searchCalls = 0
    /\ fetchLog = <<>>
    /\ embedLog = <<>>

\* return best, all
Finish(best, all) ==
    /\ pc' = "done"
    /\ result' = Returned(IF best = None THEN None ELSE Some(all[best[1]]), all)

----------------------------------------------------------------------------
(* backend/server.py: find_competitor -> search_and_match *)

\* find_competitor reads keyword and description and calls search_and_match,
\* which issues the search and builds the candidate list (lines 82-101)
SM_Search ==
    /\ impl = "server" /\ pc = "start"
    /\ \E resp \in SearchResponses :
         LET data == _make_rainforest_request(resp)
             cands == BuildCandidates(data)
         IN /\ searchCalls' = searchCalls + 1
            /\ searchFailed' = ~resp.ok
            /\ candidates' = cands
            /\ IF cands = <<>>
               THEN /\ Finish(None, <<>>)
                    /\ UNCHANGED <<all_texts, idx>>
               ELSE /\ pc' = "enrich"
                    /\ all_texts' = <<my_desc>>
                    /\ idx' = 1
                    /\ UNCHANGED result
    /\ UNCHANGED <<impl, keyword, my_desc, valid_candidates, embeddings,
                   my_vector, best_match, highest_score, fetchLog, embedLog>>

\* one iteration of `for item in candidates` (lines 108-113)
SM_FetchDetail ==
    /\ impl = "server" /\ pc = "enrich" /\ idx <= Len(candidates)
    /\ \E resp \in DetailResponses :
         LET item == candidates[idx]
             dt == get_product_details(resp)
         IN /\ fetchLog' = Append(fetchLog, [id |-> item.id, resp |-> resp, text |-> dt])
            /\ IF dt # <<>>
               THEN /\ all_texts' = Append(all_texts, Take(dt, TextLimit))
                    /\ valid_candidates' =
                         Append(valid_candidates, [item EXCEPT !.desc_text = dt])
               ELSE UNCHANGED <<all_texts, valid_candidates>>
    /\ idx' = idx + 1
    /\ UNCHANGED <<impl, pc, keyword, my_desc, candidates, embeddings, my_vector,
                   best_match, highest_score, result, searchFailed, searchCalls,
                   embedLog>>

\* `if not valid_candidates: return None, []` (line 115)
SM_EnrichDone ==
    /\ impl = "server" /\ pc = "enrich" /\ idx > Len(candidates)
    /\ IF valid_candidates = <<>>
       THEN Finish(None, <<>>)
       ELSE pc' = "embed" /\ UNCHANGED result
    /\ UNCHANGED <<impl, keyword, my_desc, candidates, valid_candidates, all_texts,
                   embeddings, my_vector, best_match, highest_score, idx,
                   searchFailed, searchCalls, fetchLog, embedLog>>

\* embeddings = self.get_embeddings_from_hf(all_texts) (line 118)
SM_Embed ==
    /\ impl = "server" /\ pc = "embed"
    /\ \E first \in FirstResponses, second \in RetryResponses :
         /\ embedLog' = Append(embedLog, [batch |-> all_texts,
                                          fetched |-> Len(fetchLog),
                                          posts |-> Posts(first)])
         /\ IF ParsesJson(first, second)
            THEN \E body \in JsonBodies(Len(all_texts)) :
                    embeddings' = get_embeddings_from_hf(first, second, body)
            ELSE embeddings' = get_embeddings_from_hf(first, second, PyNone)
    /\ pc' = "check"
    /\ UNCHANGED <<impl, keyword, my_desc, candidates, valid_candidates, all_texts,
                   my_vector, best_match, highest_score, idx, result,
                   searchFailed, searchCalls, fetchLog>>

\* the fallback of lines 121-127: the first survivor, similarity 0.0
SM_Fallback ==
    /\ valid_candidates' =
         [valid_candidates EXCEPT ![1].similarity = Some(ZeroScore),
                                  ![1].features = Some(ErrorFeatures)]
    /\ best_match' = Some(1)
    /\ Finish(best_match', valid_candidates')
    /\ UNCHANGED <<my_vector, highest_score, idx, embedLog>>

\* the format check and the reference vector (lines 130-142)
SM_CheckFormat ==
    /\ IF embeddings.kind # "list"
       THEN /\ Finish(None, <<>>)
            /\ UNCHANGED <<my_vector, best_match, highest_score, idx>>
       ELSE /\ my_vector' = Some(RowOf(embeddings.items[1]))
            /\ best_match' = None
            /\ highest_score' = InitialHighest
            /\ idx' = 1
            /\ pc' = "rank"
            /\ UNCHANGED result
    /\ UNCHANGED <<valid_candidates, embedLog>>

\* SM_CheckEmbeddings with a failed embedding call tried once more
SM_CheckEmbeddings_retry ==
    /\ impl = "server" /\ pc = "check"
    /\ IF EmbeddingsFailed(embeddings)
       THEN IF Len(embedLog) < 2
            THEN /\ pc' = "embed"
                 /\ UNCHANGED <<valid_candidates, best_match, result, my_vector,
                                highest_score, idx, embedLog>>
            ELSE SM_Fallback
       ELSE SM_CheckFormat
    /\ UNCHANGED <<impl, keyword, my_desc, candidates, all_texts, embeddings,
                   searchFailed, searchCalls, fetchLog>>

\* what search_and_match does with the embedding answer (lines 121-142)
SM_CheckEmbeddings ==
    /\ impl = "server" /\ pc = "check"
    /\ IF EmbeddingsFailed(embeddings) THEN SM_Fallback ELSE SM_CheckFormat
    /\ UNCHANGED <<impl, keyword, my_desc, candidates, all_texts, embeddings,
                   searchFailed, searchCalls, fetchLog>>

\* embeddings[i + 1] with i running from 1 instead of 0
CandidateEntry_off(e, i) == e.items[i]

\* embeddings[i + 1]: the entry of the candidate at position i (1-based here)
CandidateEntry(e, i) == e.items[i + 1]

\* features = desc_text[:100] + "..."
Preview(text) == Take(text, PreviewLen) \o Ellipsis

\* one iteration of `for i, item in enumerate(valid_candidates)` (lines 144-155);
\* an IndexError or a dimension mismatch lands in the except clause (158-160)
SM_RankStep ==
    /\ impl = "server" /\ pc = "rank" /\ idx <= Len(valid_candidates)
    /\ IF idx + 1 > Len(embeddings.items)
          \/ Len(RowOf(CandidateEntry(embeddings, idx))) # Len(my_vector[1])
       THEN /\ Finish(None, <<>>)
            /\ UNCHANGED <<valid_candidates, best_match, highest_score, idx>>
       ELSE LET item_vector == RowOf(CandidateEntry(embeddings, idx))
                score == cosine_similarity(my_vector[1], item_vector)
            IN /\ valid_candidates' =
                    [valid_candidates EXCEPT
                       ![idx].similarity = Some(score),
                       ![idx].features = Some(Preview(valid_candidates[idx].desc_text))]
               /\ IF ScoreGt(score, highest_score)
                  THEN highest_score' = score /\ best_match' = Some(idx)
                  ELSE UNCHANGED <<highest_score, best_match>>
               /\ idx' = idx + 1
               /\ UNCHANGED <<pc, result>>
    /\ UNCHANGED <<impl, keyword, my_desc, candidates, all_texts, embeddings,
                   my_vector, searchFailed, searchCalls, fetchLog, embedLog>>

\* return best_match, valid_candidates (line 157)
SM_Return ==
    /\ impl = "server" /\ pc = "rank" /\ idx > Len(valid_candidates)
    /\ Finish(best_match, valid_candidates)
    /\ UNCHANGED <<impl, keyword, my_desc, candidates, valid_candidates, all_texts,
                   embeddings, my_vector, best_match, highest_score, idx,
                   searchFailed, searchCalls, fetchLog, embedLog>>

----------------------------------------------------------------------------
(* competitor_matcher.py: find_best_competitor *)

\* what get_embedding can return: model.encode(text), or np.random.rand(384)
\* without a model or for an empty text; always one fixed dimension
LocalVectors == [1..2 -> -1..1]

\* search_amazon_real(search_keyword, limit=1) and the empty check (127-130)
FBC_Search ==
    /\ impl = "cli" /\ pc = "start"
    /\ \E resp \in SearchResponses :
         LET data == _make_rainforest_request(resp)
             competitors == BuildCandidates(data)
         IN /\ searchCalls' = searchCalls + 1
            /\ searchFailed' = ~resp.ok
            /\ candidates' = competitors
            /\ IF competitors = <<>>
               THEN Finish(None, <<>>)
               ELSE pc' = "embed_my" /\ UNCHANGED result
    /\ UNCHANGED <<impl, keyword, my_desc, valid_candidates, all_texts, embeddings,
                   my_vector, best_match, highest_score, idx, fetchLog, embedLog>>

\* my_vector = self.get_embedding(my_product_desc) (133-139)
FBC_EmbedMy ==
    /\ impl = "cli" /\ pc = "embed_my"
    /\ \E v \in LocalVectors : my_vector' = Some(v)
    /\ embedLog' = Append(embedLog, [batch |-> <<my_desc>>,
                                     fetched |-> Len(fetchLog), posts |-> 0])
    /\ best_match' = None
    /\ highest_score' = InitialHighest
    /\ idx' = 1
    /\ pc' = "match"
    /\ UNCHANGED <<impl, keyword, my_desc, candidates, valid_candidates, all_texts,
                   embeddings, result, searchFailed, searchCalls, fetchLog>>

\* one iteration of `for item in competitors` (141-163)
FBC_Item ==
    /\ impl = "cli" /\ pc = "match" /\ idx <= Len(candidates)
    /\ \E resp \in DetailResponses, item_vector \in LocalVectors :
         LET item == candidates[idx]
             fetched == get_product_details_from_api(resp)
             detailed_text == IF fetched = <<>> THEN item.title ELSE fetched
             score == cosine_similarity(my_vector[1], item_vector)
         IN /\ fetchLog' = Append(fetchLog, [id |-> item.id, resp |-> resp,
                                             text |-> fetched])
            /\ embedLog' = Append(embedLog, [batch |-> <<detailed_text>>,
                                             fetched |-> Len(fetchLog'), posts |-> 0])
            /\ valid_candidates' =
                 Append(valid_candidates,
                        [item EXCEPT !.similarity = Some(score),
                                     !.features = Some(Preview(detailed_text))])
            /\ IF ScoreGt(score, highest_score)
               THEN highest_score' = score /\ best_match' = Some(idx)
               ELSE UNCHANGED <<highest_score, best_match>>
    /\ idx' = idx + 1
    /\ UNCHANGED <<impl, pc, keyword, my_desc, candidates, all_texts, embeddings,
                   my_vector, result, searchFailed, searchCalls>>

\* return best_match, results (166)
FBC_Return ==
    /\ impl = "cli" /\ pc = "match" /\ idx > Len(candidates)
    /\ Finish(best_match, valid_candidates)
    /\ UNCHANGED <<impl, keyword, my_desc, candidates, valid_candidates, all_texts,
                   embeddings, my_vector, best_match, highest_score, idx,
                   searchFailed, searchCalls, fetchLog, embedLog>>

----------------------------------------------------------------------------

Next ==
    \/ SM_Search
    \/ SM_FetchDetail
    \/ SM_EnrichDone
    \/ SM_Embed
    \/ SM_CheckEmbeddings
    \/ SM_RankStep
    \/ SM_Return
    \/ FBC_Search
    \/ FBC_EmbedMy
    \/ FBC_Item
    \/ FBC_Return

Spec == Init /\ [][Next]_vars

----------------------------------------------------------------------------
(* Vocabulary of the properties *)

Done == pc = "done"

\* a detail fetch succeeded: the call returned and carried a product
FetchSucceeded(f) == f.resp.ok /\ f.resp.hasProduct

AllFetchesFailed ==
    /\ Len(fetchLog) = Len(candidates)
    /\ \A i \in 1..Len(fetchLog) : ~FetchSucceeded(fetchLog[i])

Ids(cands) == [i \in 1..Len(cands) |-> cands[i].id]

\* ids of the candidates whose detail fetch succeeded, in fetch order
SucceededIds == Ids(SelectSeq(fetchLog, FetchSucceeded))

\* the marker the fallback leaves on the match it returns
Degraded(r) == r.best # None /\ r.best[1].features = Some(ErrorFeatures)

RECURSIVE SameLengths(_)
SameLengths(rows) ==
    \/ Len(rows) <= 1
    \/ Len(rows[1]) = Len(rows[2]) /\ SameLengths(Tail(rows))

\* EmbeddingUnavailable for a batch of n texts: no vector list, or a list
\* whose length is not n, or whose vectors differ in dimension
EmbeddingUnavailable(e, n) ==
    \/ e.kind # "list"
    \/ Len(e.items) # n
    \/ ~SameLengths([i \in 1..Len(e.items) |-> RowOf(e.items[i])])

\* the server handed a batch to the embedding service and got its answer
ServerEmbedded == impl = "server" /\ Done /\ embedLog # <<>>

\* the ranking loop has run over every candidate
RankLoopDone ==
    \/ impl = "server" /\ pc = "rank" /\ idx > Len(valid_candidates)
    \/ impl = "cli" /\ pc = "match" /\ idx > Len(candidates)

\* i is the lowest index whose similarity is the maximum
IsFirstMax(cands, i) ==
    /\ \A j \in 1..Len(cands) :
         ~ScoreGt(cands[j].similarity[1], cands[i].similarity[1])
    /\ \A j \in 1..(i - 1) :
         ScoreGt(cands[i].similarity[1], cands[j].similarity[1])

----------------------------------------------------------------------------
(* Properties *)

\* C1: a request whose search call failed ends in the SearchFailed error kind,
\* which differs from the successful "no competitors" result (none, []).
C1_SearchFailureIsDistinct ==
    (Done /\ searchFailed) => (result.kind = "SearchFailed" /\ result # NoResult)

\* C2: in search_and_match, when at least one candidate survived enrichment,
\* whatever the embedding call answered, the result has a best match and a
\* non-empty candidate list.
C2_EmbeddingNeverEmptiesResult ==
    (impl = "server" /\ Done /\ valid_candidates # <<>>)
        => (result.kind = "success" /\ result.best # None /\ result.all # <<>>)

\* C3: when the embedding answer is EmbeddingUnavailable and N >= 1 candidates
\* survived, the result is the degraded fallback: best match is the first
\* survivor, the result is marked degraded, all N survivors are returned in
\* order and every one of them has similarity 0.
C3_FallbackOnEmbeddingUnavailable ==
    (ServerEmbedded /\ EmbeddingUnavailable(embeddings, Len(all_texts)))
        => /\ Ids(result.all) = Ids(valid_candidates)
           /\ result.all # <<>>
           /\ result.best = Some(result.all[1])
           /\ Degraded(result)
           /\ \A i \in 1..Len(result.all) :
                result.all[i].similarity = Some(ZeroScore)

\* C4: the returned candidates are exactly the search candidates whose detail
\* fetch succeeded, in search order; a candidate whose fetch failed is neither
\* returned nor scored.
C4_OnlyFailedCandidatesDropped ==
    Done => Ids(result.all) = SucceededIds

\* C6: a request with an empty keyword is rejected as InvalidInput and issues
\* no search, detail-fetch or embedding call.
C6_EmptyKeywordRejected ==
    keyword = <<>>
        => /\ searchCalls = 0 /\ fetchLog = <<>> /\ embedLog = <<>>
           /\ Done => result.kind = "InvalidInput"

\* C7: once the ranking loop has run over a non-empty candidate sequence, the
\* best match is the lowest-index candidate whose similarity is the maximum;
\* it is none only for an empty sequence.
C7_BestIsFirstMaximum ==
    (impl = "server" /\ RankLoopDone /\ valid_candidates # <<>>)
        => (best_match # None /\ IsFirstMax(valid_candidates, best_match[1]))

\* a product all of whose fields are absent or empty
AllFieldsEmpty(p) ==
    /\ Get(p.title, <<>>) = <<>>
    /\ Get(p.feature_bullets, <<>>) = <<>>
    /\ Get(p.description, <<>>) = <<>>

\* C10: the text assembled from a fetched product is the empty string exactly
\* when every field of the product is empty or absent.
C10_AssembledTextEmptyIffFieldsEmpty ==
    \A i \in 1..Len(fetchLog) :
        FetchSucceeded(fetchLog[i])
            => ((fetchLog[i].text = <<>>) <=> AllFieldsEmpty(fetchLog[i].resp.product))


\* the batch search_and_match has built for the current survivors
WholeBatch ==
    <<my_desc>> \o [i \in 1..Len(valid_candidates) |->
                      Take(valid_candidates[i].desc_text, TextLimit)]

OwnText(id) ==
    LET k == CHOOSE k \in 1..Len(fetchLog) : fetchLog[k].id = id
    IN fetchLog[k].text

\* the ranking of search_and_match ran to its return statement
ServerRanked ==
    impl = "server" /\ Done /\ result.all # <<>> /\ ~EmbeddingsFailed(embeddings)

\* C9: in search_and_match the batch position i+1 holds the text fetched for
\* survivor i itself, the similarity of survivor i is the cosine of answer
\* entries 1 and i+1, and after a completed ranking every returned candidate
\* has a similarity.
C9_PositionAlignment ==
    impl = "server" =>
      /\ all_texts # <<>> =>
           /\ Len(all_texts) = 1 + Len(valid_candidates)
           /\ all_texts[1] = my_desc
           /\ \A i \in 1..Len(valid_candidates) :
                /\ valid_candidates[i].desc_text = OwnText(valid_candidates[i].id)
                /\ all_texts[i + 1] = Take(OwnText(valid_candidates[i].id), TextLimit)
      /\ ~EmbeddingsFailed(embeddings) =>
           \A i \in 1..Len(valid_candidates) :
              valid_candidates[i].similarity # None =>
                 valid_candidates[i].similarity =
                    Some(cosine_similarity(embeddings.items[1].vec,
                                           embeddings.items[i + 1].vec))
      /\ ServerRanked =>
           /\ Ids(result.all) = Ids(valid_candidates)
           /\ \A i \in 1..Len(result.all) : result.all[i].similarity # None

C9_Witness ==
    /\ ServerRanked
    /\ result.all[1].desc_text = <<"T", ".", " ", "b", " ", "c">>
    /\ embeddings.items[1].vec = <<1, 1>>
    /\ embeddings.items[2].vec = <<0, 1>>
    /\ result.all[1].similarity = Some([num |-> 1, den |-> 2])

====
